---- MODULE Spec2Model ----
(***************************************************************************)
(* A model of src/main.py: the generate_video pipeline (create call, poll   *)
(* loop of wait_for_video_completion, streamed download into the videos    *)
(* directory) and serve_video.                                             *)
(*                                                                         *)
(* Each element of Procs is one generate_video request.  The handlers are  *)
(* coroutines on one event loop, so the code between two awaits is one     *)
(* atomic action; an action below is "an await returns, and the handler    *)
(* runs up to its next await (or to its end)".                             *)
(*                                                                         *)
(* Time is counted in whole seconds.  elapsed[p] is the value of           *)
(* time.time() - start_time in request p: it advances by the duration of   *)
(* every await of the poll loop (a status call takes the time the upstream *)
(* takes, asyncio.sleep(d) takes d).                                       *)
(***************************************************************************)
EXTENDS Integers, Sequences, FiniteSets, TLC

Procs == {1, 2}

(* ------------------------------ bounds -------------------------------- *)
\* at most this many chunks are streamed by one content response
MaxChunks == 2

\* the poll counter of `calls` counts up to here: Many stands for "or more"
Many == 2

(* --------------------------- Python values ---------------------------- *)
None == "<None>"          \* Python None
Missing == "<missing>"    \* a key that a JSON object does not have

\* Python truthiness of a str-or-None value (`if not x`)
Truthy(v) == v # None /\ v # ""

\* str(v) as an f-string renders it
PyStr(v) == IF v = None THEN "None" ELSE v

Min(a, b) == IF a < b THEN a ELSE b
Max(a, b) == IF a > b THEN a ELSE b

\* an f-string with one placeholder: the literal text and the rendered value
Detail(prefix, value) == <<prefix, value>>

(* ----------------------------- the request ---------------------------- *)
\* lines 25-29: VideoRequest
VideoRequest(prompt, model, size, duration) ==
    [prompt |-> prompt, model |-> model, size |-> size, duration |-> duration]
NoRequest == VideoRequest("", "", "", 0)

VideoRequests ==
    {VideoRequest("a cat", "sora-2", s, d)
        : s \in {"720x1280", "1280x720", "1024x1792", "1792x1024", "640x480"},
          d \in {0, 4, 8, 12}}

Digit(d) ==
    CASE d = 0 -> "0" [] d = 1 -> "1" [] d = 2 -> "2" [] d = 3 -> "3"
      [] d = 4 -> "4" [] d = 5 -> "5" [] d = 6 -> "6" [] d = 7 -> "7"
      [] d = 8 -> "8" [] d = 9 -> "9"

\* line 149: str(request.duration), the decimal digits of an int
Bug_StrInt(n) == Digit(n % 10)
RECURSIVE StrInt(_)
StrInt(n) ==
    IF n < 0 THEN "-" \o StrInt(-n)
    ELSE IF n < 10 THEN Digit(n)
    ELSE StrInt(n \div 10) \o Digit(n % 10)

\* lines 141-149: the body of the create call; seconds is Missing when
\* request.duration is falsy
Payload(req) ==
    [model |-> req.model, prompt |-> req.prompt, size |-> req.size,
     seconds |-> IF req.duration # 0 THEN StrInt(req.duration) ELSE Missing]
NoPayload == [model |-> "", prompt |-> "", size |-> "", seconds |-> Missing]

(* ------------------------- upstream responses ------------------------- *)
\* The JSON bodies the code looks into.  kind: "invalid" (not JSON), "list"
\* (JSON, but no object) or "dict"; of a dict the keys the code reads: id,
\* status and error, error being absent, null, a string or an object with or
\* without a message.
ErrorValue(kind, message) == [kind |-> kind, message |-> message]
NoError == ErrorValue("missing", Missing)
Json(kind, id, status, error) ==
    [kind |-> kind, id |-> id, status |-> status, error |-> error]
NotJson == Json("invalid", Missing, Missing, NoError)
JsonList == Json("list", Missing, Missing, NoError)
EmptyDict == ErrorValue("dict", Missing)

Ids == {"v1", "v2"}
ErrorMessages == {"moderation", "overloaded"}

Response(status_code, text, json) ==
    [exc |-> "", status_code |-> status_code, text |-> text, json |-> json]
\* the call raises instead of returning (httpx.ConnectError, ReadTimeout, ...)
NoResponse == [exc |-> "", status_code |-> 0, text |-> "", json |-> Json("none", Missing, Missing, ErrorValue("missing", Missing))]
TransportError == [exc |-> "ReadTimeout", status_code |-> 0, text |-> "", json |-> NotJson]

ErrorBodies ==
    {[text |-> "Bad Gateway", json |-> NotJson],
     [text |-> "[]", json |-> JsonList],
     [text |-> "{detail}", json |-> Json("dict", Missing, Missing, NoError)],
     [text |-> "{error:null}", json |-> Json("dict", Missing, Missing, ErrorValue("null", Missing))],
     [text |-> "{error:{}}", json |-> Json("dict", Missing, Missing, EmptyDict)]}
    \cup {[text |-> "{error:{message}}", json |-> Json("dict", Missing, Missing, ErrorValue("dict", m))]
            : m \in ErrorMessages \cup {None}}

CreateResponses ==
    {TransportError}
    \cup {Response(c, b.text, b.json) : c \in {400, 503}, b \in ErrorBodies}
    \cup {Response(c, "{id}", Json("dict", i, "queued", NoError))
            : c \in {200, 201}, i \in Ids \cup {Missing, None, ""}}
    \cup {Response(200, "OK", NotJson), Response(201, "[]", JsonList)}

PollResponses ==
    {TransportError}
    \cup {Response(c, "status error", NotJson) : c \in {404, 500}}
    \cup {Response(200, "OK", NotJson), Response(200, "[]", JsonList)}
    \cup {Response(200, "{status}", Json("dict", Missing, s, NoError))
            : s \in {"queued", "in_progress", Missing, "completed", "failed"}}
    \cup {Response(200, "{status,error}", Json("dict", Missing, "failed", e))
            : e \in {ErrorValue("null", Missing), EmptyDict}
                    \cup {ErrorValue("dict", m) : m \in ErrorMessages}}

\* a body whose bytes are no UTF-8 text
NotUtf8 == "<not utf-8>"

ContentResponses ==
    {TransportError, Response(200, "", NotJson)}
    \cup {Response(c, "content error", NotJson) : c \in {404, 500}}
    \cup {Response(404, NotUtf8, NotJson)}

\* a chunk of the streamed body; the empty chunk is the one line 95 skips
Chunks == {<< >>, <<1>>, <<2, 2>>}


(* ------------------------------ state --------------------------------- *)
VARIABLES
    OPENAI_API_KEY,  \* the credential read at startup (line 18)
    files,           \* the videos directory: filename -> bytes of the file
    served,          \* the response of the latest serve_video request
    pc,              \* where each generate_video request stands
    create_response, \* the response of the create call (line 153)
    video_id,        \* the job id taken from it (line 172)
    max_wait,        \* the wait budget of wait_for_video_completion
    elapsed,         \* time.time() - start_time, in seconds, while the loop runs
    delay,           \* the argument of the asyncio.sleep under way
    poll_dur,        \* how long the status call before that sleep took
    observed,        \* the status response that reported completed or failed
    fh,              \* the file object of `with open(video_path, "wb") as f`
    total_bytes,     \* the local of that name (line 92)
    received,        \* the bytes the content response has streamed so far
    n_chunks,        \* how many chunks it has streamed
    calls,           \* upstream calls issued: create, poll, content
    content_response,  \* the response of the content fetch (line 88)
    poll_status,     \* the status code of the latest status response (line 66)
    request,         \* the VideoRequest of the create call in flight
    payload,         \* the JSON body of the create call in flight (lines 141-149)
    raised,          \* the exception raised inside the try block of generate_video
    result           \* what generate_video returned or raised

vars == <<OPENAI_API_KEY, files, served, pc, create_response, video_id, max_wait,
          elapsed, delay, poll_dur, observed, fh, total_bytes, received, n_chunks, calls, content_response,
          poll_status,
          request,
          payload,
          raised,
          result>>

NoData == Json("none", Missing, Missing, NoError)
Closed == [open |-> FALSE, name |-> "", off |-> 0, buf |-> << >>]
NoResult ==
    [kind |-> "none", status_code |-> 0, detail |-> <<"", "">>,
     video_url |-> <<"", "">>, status |-> "", message |-> ""]
NotServed ==
    [path |-> <<"", "">>, status_code |-> 0, detail |-> "", body |-> << >>,
     media_type |-> ""]

(* ----------------------------- exceptions ----------------------------- *)
HTTPException(status_code, detail) ==
    [type |-> "HTTPException", status_code |-> status_code, detail |-> detail]
\* any exception that is no HTTPException; str(e) is its text
OtherException(text) ==
    [type |-> "Exception", status_code |-> 0, detail |-> <<text, "">>]

NoException == [type |-> "", status_code |-> 0, detail |-> <<"", "">>]

\* lines 202-206: an HTTPException passes, anything else becomes a 500
Bug_CatchAll(e) == HTTPException(500, Detail("Error generating video: ", e.detail[1]))
CatchAll(e) ==
    IF e.type = "HTTPException"
    THEN e
    ELSE HTTPException(500, Detail("Error generating video: ", e.detail[1]))

ErrorResult(e) ==
    [NoResult EXCEPT !.kind = "error", !.status_code = e.status_code,
                     !.detail = e.detail]

\* generate_video ends raising e (through its except clauses)
Raise(p, e) ==
    /\ pc' = [pc EXCEPT ![p] = "raised"]
    /\ raised' = [raised EXCEPT ![p] = e]
    /\ result' = [result EXCEPT ![p] = ErrorResult(CatchAll(e))]

(* --------------------------- pure helpers ----------------------------- *)
\* line 129: `if not OPENAI_API_KEY`
Bug_ApiKeyConfigured(key) == key # None
ApiKeyConfigured(key) == Truthy(key)

\* line 159
CreateSucceeded(status_code) == status_code \in {200, 201}

\* lines 160-165: error.message of a JSON object body, else the raw body.
\* response.json() on a body that is no JSON, and .get on what is no object
\* (a list, null, a string), raise; the bare except keeps the raw body.
Bug_CreateErrorDetail(resp) == resp.text
CreateErrorDetail(resp) ==
    LET j == resp.json
        e == IF j.error.kind = "missing" THEN EmptyDict ELSE j.error
    IN  IF j.kind # "dict" THEN resp.text
        ELSE IF e.kind # "dict" THEN resp.text
        ELSE IF e.message = Missing THEN resp.text
        ELSE PyStr(e.message)

\* lines 174-175: `if not video_id`
Bug_HasVideoId(id) == id # None
HasVideoId(id) == Truthy(id)

\* line 59: the loop condition
Bug_LoopCondition(e, mw) == e <= mw + 200
LoopCondition(e, mw) == e < mw

\* line 117: min(5, 1 + elapsed / 30), in whole seconds
Bug_PollDelay(e) == 0
Bug_PollDelayUncapped(e) == 1 + e \div 30
PollDelay(e) == Min(5, 1 + e \div 30)

\* lines 75 and 112: which branch a status takes
Bug_StatusBranch(status) ==
    IF status = "failed" THEN "failed" ELSE "pending"
StatusBranch(status) ==
    IF status = "completed" THEN "completed"
    ELSE IF status = "failed" THEN "failed"
    ELSE "pending"

\* line 113: video_data.get("error", {}).get("message", "Unknown error");
\* raised is TRUE when .get is called on what is no object (AttributeError)
Bug_FailedError(j) == [raised |-> FALSE, value |-> "Unknown error"]
FailedError(j) ==
    LET e == IF j.error.kind = "missing" THEN EmptyDict ELSE j.error
    IN  IF e.kind # "dict" THEN [raised |-> TRUE, value |-> ""]
        ELSE IF e.message = Missing THEN [raised |-> FALSE, value |-> "Unknown error"]
        ELSE [raised |-> FALSE, value |-> PyStr(e.message)]

\* line 66
Bug_PollOk(status_code) == status_code # 500
PollOk(status_code) == status_code = 200

\* line 90
Bug_ContentOk(status_code) == status_code # 500
ContentOk(status_code) == status_code = 200

\* line 109: error_text.decode(); raised is TRUE for bytes that are no
\* UTF-8 (UnicodeDecodeError)
Decode(body) ==
    IF body = NotUtf8 THEN [raised |-> TRUE, value |-> ""]
    ELSE [raised |-> FALSE, value |-> body]

\* line 79
Bug_VideoFilename(id) == "video.mp4"
VideoFilename(id) == id \o ".mp4"

\* line 194: "/videos/" followed by the filename
Bug_LocalVideoUrl(filename) == <<"/videos/", "video.mp4">>
LocalVideoUrl(filename) == <<"/videos/", filename>>

\* line 219: the route /videos/{video_filename} takes the filename of a path
RouteFilename(path) == path[2]

(* --------------------------- the file system -------------------------- *)
Exists(dir, name) == name \in DOMAIN dir

\* open(path, "wb"): the file is created, or truncated when it exists
Bug_OpenWb(dir, name) == [n \in {name} |-> << >>]
OpenWb(dir, name) ==
    [n \in DOMAIN dir \cup {name} |-> IF n = name THEN << >> ELSE dir[n]]

\* data written at offset off of a file; a gap reads as zero bytes
WriteAt(content, off, data) ==
    [i \in 1..Max(Len(content), off + Len(data)) |->
        IF i > off /\ i <= off + Len(data) THEN data[i - off]
        ELSE IF i <= Len(content) THEN content[i]
        ELSE 0]

\* the buffer of a file object reaches the file
FlushTo(dir, h) ==
    IF h.buf = << >> THEN dir
    ELSE [dir EXCEPT ![h.name] = WriteAt(dir[h.name], h.off, h.buf)]
Bug_Flushed(h) == [h EXCEPT !.buf = << >>]
Flushed(h) == [h EXCEPT !.off = h.off + Len(h.buf), !.buf = << >>]

\* lines 95-97: `if chunk:` f.write(chunk)
Bug_Buffered(h, chunk) == IF chunk # << >> THEN [h EXCEPT !.buf = chunk] ELSE h
Buffered(h, chunk) == IF chunk # << >> THEN [h EXCEPT !.buf = h.buf \o chunk] ELSE h

\* lines 224-235: 404 when the path does not exist, else the file
Bug_ServeVideoResponse(dir, path) ==
    IF Exists(dir, RouteFilename(path))
    THEN [NotServed EXCEPT !.path = path, !.status_code = 200,
                           !.body = dir[RouteFilename(path)], !.media_type = "video/mp4"]
    ELSE [NotServed EXCEPT !.path = path, !.status_code = 500,
                           !.detail = "Internal Server Error"]
ServeVideoResponse(dir, path) ==
    IF ~Exists(dir, RouteFilename(path))
    THEN [NotServed EXCEPT !.path = path, !.status_code = 404,
                           !.detail = "Video not found"]
    ELSE [NotServed EXCEPT !.path = path, !.status_code = 200,
                           !.body = dir[RouteFilename(path)], !.media_type = "video/mp4"]

(* --------------------------- environments ----------------------------- *)
\* What the upstream and the clients may do: the responses of the three
\* upstream calls, the seconds a status call may take, the chunks of a
\* content body and the paths asked of serve_video.
Environment(requests, create, poll, durations, content, chunks, paths) ==
    [requests |-> requests, create |-> create, poll |-> poll, durations |-> durations,
     content |-> content, chunks |-> chunks, paths |-> paths]

\* one request alone, against everything the upstream may answer
Wide ==
    Environment(VideoRequests, CreateResponses, PollResponses, {0, 1, 7, 120}, ContentResponses,
                Chunks, {<<"/videos/", n>> : n \in {"v1.mp4", "intro.mp4"}})

\* concurrent requests, against an upstream that answers slowly
Narrow ==
    Environment({VideoRequest("a cat", "sora-2", "720x1280", 8)},
                {Response(201, "{id}", Json("dict", i, "queued", NoError)) : i \in Ids}
                  \cup {Response(400, "Bad Request", NotJson)},
                {Response(200, "{status}", Json("dict", Missing, s, NoError))
                    : s \in {"queued", "completed", "failed"}},
                {300},
                {Response(200, "", NotJson), Response(404, "content error", NotJson)},
                {<<1>>, <<2>>},
                {<<"/videos/", "v1.mp4">>})

(* ------------------------------- Init --------------------------------- *)
ApiKeys == {None, "", "sk-test"}

Init ==
    /\ OPENAI_API_KEY \in ApiKeys
    /\ files = << >>
    /\ served = NotServed
    /\ pc = [p \in Procs |-> "idle"]
    /\ create_response = [p \in Procs |-> NoResponse]
    /\ video_id = [p \in Procs |-> None]
    /\ max_wait = [p \in Procs |-> 0]
    /\ elapsed = [p \in Procs |-> 0]
    /\ delay = [p \in Procs |-> 0]
    /\ poll_dur = [p \in Procs |-> 0]
    /\ observed = [p \in Procs |-> NoData]
    /\ fh = [p \in Procs |-> Closed]
    /\ total_bytes = [p \in Procs |-> 0]
    /\ received = [p \in Procs |-> << >>]
    /\ n_chunks = [p \in Procs |-> 0]
    /\ calls = [p \in Procs |-> [create |-> 0, poll |-> 0, content |-> 0]]
    /\ content_response = [p \in Procs |-> NoResponse]
    /\ poll_status = [p \in Procs |-> 0]
    /\ request = [p \in Procs |-> NoRequest]
    /\ payload = [p \in Procs |-> NoPayload]
    /\ raised = [p \in Procs |-> NoException]
    /\ result = [p \in Procs |-> NoResult]

(* ------------------------------ actions ------------------------------- *)
Issue(p, call) ==
    calls' = [calls EXCEPT ![p][call] = IF call = "poll" THEN Min(@ + 1, Many) ELSE @ + 1]

\* line 40: the default of max_wait
DEFAULT_MAX_WAIT == 600

\* the locals of the poll loop, once the loop is left
LoopLeft(p) ==
    /\ elapsed' = [elapsed EXCEPT ![p] = 0]
    /\ delay' = [delay EXCEPT ![p] = 0]
    /\ poll_dur' = [poll_dur EXCEPT ![p] = 0]

\* line 59 evaluated with e seconds elapsed: the next status call is issued
\* (line 61), or the loop ends and line 119 raises
LoopTop(p, e, mw) ==
    IF LoopCondition(e, mw)
    THEN /\ pc' = [pc EXCEPT ![p] = "polling"]
         /\ Issue(p, "poll")
         /\ UNCHANGED <<result, raised>>
         /\ elapsed' = [elapsed EXCEPT ![p] = e]
         /\ delay' = [delay EXCEPT ![p] = 0]
         /\ poll_dur' = [poll_dur EXCEPT ![p] = 0]
    ELSE /\ Raise(p, HTTPException(408, Detail("Video generation timeout", "")))
         /\ calls' = calls
         /\ LoopLeft(p)

\* lines 127-157: the credential check, then the create call is issued
GenerateVideo(p, E) ==
    /\ pc[p] = "idle"
    /\ IF ~ApiKeyConfigured(OPENAI_API_KEY)
       THEN /\ Raise(p, HTTPException(500,
                   Detail("OPENAI_API_KEY not configured. Please set it in .env file", "")))
            /\ UNCHANGED <<calls, request, payload>>
       ELSE /\ \E req \in E.requests :
                 /\ request' = [request EXCEPT ![p] = req]
                 /\ payload' = [payload EXCEPT ![p] = Payload(req)]
            /\ pc' = [pc EXCEPT ![p] = "creating"]
            /\ Issue(p, "create")
            /\ UNCHANGED <<result, raised>>
    /\ UNCHANGED <<OPENAI_API_KEY, poll_status, content_response, files, served, create_response, video_id, max_wait, elapsed, delay,
                   poll_dur, observed, fh, total_bytes, received, n_chunks>>

\* lines 153-178 and 55-61: the create call returns; on a job id
\* wait_for_video_completion starts (start_time, the first loop check)
CreateReturns(p, E) ==
    /\ pc[p] = "creating"
    /\ request' = [request EXCEPT ![p] = NoRequest]
    /\ payload' = [payload EXCEPT ![p] = NoPayload]
    /\ \E resp \in E.create :
       /\ create_response' = [create_response EXCEPT ![p] = resp]
       /\
         IF resp.exc # ""
         THEN /\ Raise(p, OtherException(resp.exc))
              /\ UNCHANGED <<video_id, max_wait, calls, elapsed, delay, poll_dur>>
         ELSE IF ~CreateSucceeded(resp.status_code)
         THEN /\ Raise(p, HTTPException(resp.status_code,
                       Detail("Failed to create video: ", CreateErrorDetail(resp))))
              /\ UNCHANGED <<video_id, max_wait, calls, elapsed, delay, poll_dur>>
         ELSE IF resp.json.kind # "dict"
         THEN /\ Raise(p, OtherException(IF resp.json.kind = "invalid"
                                         THEN "JSONDecodeError" ELSE "AttributeError"))
              /\ UNCHANGED <<video_id, max_wait, calls, elapsed, delay, poll_dur>>
         ELSE /\ video_id' = [video_id EXCEPT ![p] =
                                IF resp.json.id = Missing THEN None ELSE resp.json.id]
              /\ IF ~HasVideoId(video_id'[p])
                 THEN /\ Raise(p, HTTPException(500, Detail("No video ID returned", "")))
                      /\ UNCHANGED <<max_wait, calls, elapsed, delay, poll_dur>>
                 ELSE /\ max_wait' = [max_wait EXCEPT ![p] = DEFAULT_MAX_WAIT]
                      /\ LoopTop(p, 0, max_wait'[p])
    /\ UNCHANGED <<OPENAI_API_KEY, poll_status, content_response, files, served, observed, fh, total_bytes, received,
                   n_chunks>>

\* lines 61-117: a status call returns after d seconds
PollReturns(p, E) ==
    /\ pc[p] = "polling"
    /\ \E resp \in E.poll, d \in E.durations :
       /\ poll_status' = [poll_status EXCEPT ![p] = resp.status_code]
       /\
         IF resp.exc # ""
         THEN /\ Raise(p, OtherException(resp.exc))
              /\ LoopLeft(p)
              /\ UNCHANGED <<observed, calls>>
         ELSE IF ~PollOk(resp.status_code)
         THEN /\ Raise(p, HTTPException(resp.status_code,
                       Detail("Failed to check video status: ", resp.text)))
              /\ LoopLeft(p)
              /\ UNCHANGED <<observed, calls>>
         ELSE IF resp.json.kind # "dict"
         THEN /\ Raise(p, OtherException(IF resp.json.kind = "invalid"
                                         THEN "JSONDecodeError" ELSE "AttributeError"))
              /\ LoopLeft(p)
              /\ UNCHANGED <<observed, calls>>
         ELSE /\ observed' = [observed EXCEPT ![p] =
                                IF resp.json.status \in {"completed", "failed"}
                                THEN resp.json ELSE @]
              /\ CASE StatusBranch(resp.json.status) = "completed" ->
                        /\ pc' = [pc EXCEPT ![p] = "fetching"]
                        /\ Issue(p, "content")
                        /\ LoopLeft(p)
                        /\ UNCHANGED <<result, raised>>
                   [] StatusBranch(resp.json.status) = "failed" ->
                        /\ IF FailedError(resp.json).raised
                           THEN Raise(p, OtherException("AttributeError"))
                           ELSE Raise(p, HTTPException(500,
                                    Detail("Video generation failed: ",
                                           FailedError(resp.json).value)))
                        /\ LoopLeft(p)
                        /\ calls' = calls
                   [] OTHER ->
                        /\ elapsed' = [elapsed EXCEPT ![p] = @ + d]
                        /\ poll_dur' = [poll_dur EXCEPT ![p] = d]
                        /\ delay' = [delay EXCEPT ![p] = PollDelay(elapsed'[p])]
                        /\ pc' = [pc EXCEPT ![p] = "sleeping"]
                        /\ UNCHANGED <<result, raised, calls>>
    /\ UNCHANGED <<OPENAI_API_KEY, payload, request, content_response, files, served, create_response, video_id, max_wait, fh,
                   total_bytes, received, n_chunks>>

\* lines 117 and 59: asyncio.sleep returns, the loop condition is evaluated
SleepReturns(p) ==
    /\ pc[p] = "sleeping"
    /\ LoopTop(p, elapsed[p] + delay[p], max_wait[p])
    /\ UNCHANGED <<OPENAI_API_KEY, payload, request, poll_status, content_response, files, served, create_response, video_id, max_wait, observed, fh,
                   total_bytes, received, n_chunks>>

\* lines 83-110: the content response arrives; on 200 the file is opened
ContentReturns(p, E) ==
    /\ pc[p] = "fetching"
    /\ \E resp \in E.content :
       /\ content_response' = [content_response EXCEPT ![p] = resp]
       /\
         IF resp.exc # ""
         THEN /\ Raise(p, OtherException(resp.exc))
              /\ UNCHANGED <<files, fh>>
         ELSE IF ContentOk(resp.status_code)
         THEN /\ files' = OpenWb(files, VideoFilename(video_id[p]))
              /\ fh' = [fh EXCEPT ![p] = [open |-> TRUE, off |-> 0, buf |-> << >>,
                                          name |-> VideoFilename(video_id[p])]]
              /\ pc' = [pc EXCEPT ![p] = "streaming"]
              /\ UNCHANGED <<result, raised>>
         ELSE /\ IF Decode(resp.text).raised
                 THEN Raise(p, OtherException("UnicodeDecodeError"))
                 ELSE Raise(p, HTTPException(resp.status_code,
                          Detail("Failed to download video content: ",
                                 Decode(resp.text).value)))
              /\ UNCHANGED <<files, fh>>
    /\ UNCHANGED <<OPENAI_API_KEY, payload, request, poll_status, served, create_response, video_id, max_wait, elapsed, delay, poll_dur,
                   observed, total_bytes, received, n_chunks, calls>>

\* lines 94-97: one chunk of the body arrives and is written; the file
\* object may keep it in its buffer or pass it on to the file
ChunkArrives(p, E) ==
    /\ pc[p] = "streaming"
    /\ n_chunks[p] < MaxChunks
    /\ \E chunk \in E.chunks, flush \in BOOLEAN :
         LET h == Buffered(fh[p], chunk)
         IN  /\ received' = [received EXCEPT ![p] = @ \o chunk]
             /\ n_chunks' = [n_chunks EXCEPT ![p] = @ + 1]
             /\ total_bytes' = [total_bytes EXCEPT ![p] =
                                  IF chunk # << >> THEN @ + Len(chunk) ELSE @]
             /\ IF flush
                THEN /\ files' = FlushTo(files, h)
                     /\ fh' = [fh EXCEPT ![p] = Flushed(h)]
                ELSE /\ files' = files
                     /\ fh' = [fh EXCEPT ![p] = h]
    /\ UNCHANGED <<OPENAI_API_KEY, payload, request, poll_status, content_response, served, pc, create_response, video_id, max_wait, elapsed, delay,
                   poll_dur, observed, calls, result, raised>>

\* lines 93-104 and 178-200: the body ends, the file is closed, and
\* generate_video answers with the local URL
StreamEnds(p) ==
    /\ pc[p] = "streaming"
    /\ files' = FlushTo(files, fh[p])
    /\ fh' = [fh EXCEPT ![p] = Closed]
    /\ total_bytes' = [total_bytes EXCEPT ![p] = 0]
    /\ pc' = [pc EXCEPT ![p] = "returned"]
    /\ result' = [result EXCEPT ![p] =
                    [NoResult EXCEPT !.kind = "success", !.status_code = 200,
                                     !.video_url = LocalVideoUrl(VideoFilename(video_id[p])),
                                     !.status = "success",
                                     !.message = "Video generated successfully"]]
    /\ UNCHANGED <<OPENAI_API_KEY, payload, request, poll_status, content_response, served, create_response, video_id, max_wait, elapsed, delay, poll_dur,
                   observed, received, n_chunks, calls, raised>>

\* line 94 raises while the body is streamed: the with block closes the file
StreamFails(p) ==
    /\ pc[p] = "streaming"
    /\ files' = FlushTo(files, fh[p])
    /\ fh' = [fh EXCEPT ![p] = Closed]
    /\ total_bytes' = [total_bytes EXCEPT ![p] = 0]
    /\ Raise(p, OtherException("ReadError"))
    /\ UNCHANGED <<OPENAI_API_KEY, payload, request, poll_status, content_response, served, create_response, video_id, max_wait, elapsed, delay, poll_dur,
                   observed, received, n_chunks, calls>>

\* lines 219-235
ServeVideo(path) ==
    /\ served' = ServeVideoResponse(files, path)
    /\ UNCHANGED <<OPENAI_API_KEY, payload, request, poll_status, content_response, files, pc, create_response, video_id, max_wait, elapsed, delay,
                   poll_dur, observed, fh, total_bytes, received, n_chunks, calls,
                   result, raised>>

Step(p, E) ==
    \/ GenerateVideo(p, E)
    \/ CreateReturns(p, E)
    \/ PollReturns(p, E)
    \/ SleepReturns(p)
    \/ ContentReturns(p, E)
    \/ ChunkArrives(p, E)
    \/ StreamEnds(p)
    \/ StreamFails(p)

\* one generate_video request, and serve_video requests at any time
Next ==
    \/ Step(1, Wide)
    \/ \E path \in Wide.paths : ServeVideo(path)

Spec == Init /\ [][Next]_vars

\* every await of the request returns: the event loop resumes the coroutine
FairSpec == Spec /\ WF_vars(Step(1, Wide))

\* concurrent generate_video requests, and serve_video requests at any time
NextConcurrent ==
    \/ \E p \in Procs : Step(p, Narrow)
    \/ \E path \in Narrow.paths : ServeVideo(path)

SpecConcurrent == Init /\ [][NextConcurrent]_vars

(* ---------------------------- properties ------------------------------ *)
Stopped == {"returned", "raised"}
NoCalls == [create |-> 0, poll |-> 0, content |-> 0]

\* C1: once a status poll has reported `failed` with error message M, the
\* request has ended with HTTP 500 and a detail that carries M, no content
\* request was made, and no upstream call follows.
C1_FailedEndsWithMessage ==
    /\ [](\A p \in Procs :
            (/\ observed[p].status = "failed"
             /\ observed[p].error.kind = "dict"
             /\ observed[p].error.message \in ErrorMessages)
            => /\ pc[p] = "raised"
               /\ result[p].kind = "error"
               /\ result[p].status_code = 500
               /\ result[p].detail =
                    <<"Video generation failed: ", observed[p].error.message>>
               /\ calls[p].content = 0)
    /\ [][\A p \in Procs :
            observed[p].status = "failed" => calls'[p] = calls[p] /\ pc'[p] = pc[p]]_vars

C1_Witness ==
    \E p \in Procs :
        /\ observed[p].status = "failed"
        /\ observed[p].error.message = "moderation"
        /\ pc[p] = "raised"
        /\ calls[p].poll = Many

\* C2: wait_for_video_completion polls at least once; the poll that reports
\* `completed` issues the content download in the same step, and no status
\* poll (and no sleep) follows it.
C2_CompletedGoesToDownload ==
    /\ [](\A p \in Procs :
            /\ video_id[p] \notin {None, ""} => calls[p].poll >= 1
            /\ observed[p].status = "completed"
                 => /\ calls[p].poll >= 1
                    /\ calls[p].content = 1
                    /\ pc[p] \in {"fetching", "streaming", "returned", "raised"})
    /\ [][\A p \in Procs :
            /\ observed[p].status = "completed"
                 => /\ calls'[p] = calls[p]
                    /\ pc'[p] \notin {"polling", "sleeping"}
            /\ (observed[p].status # "completed" /\ observed'[p].status = "completed")
                 => /\ pc'[p] = "fetching"
                    /\ calls'[p].content = calls[p].content + 1
                    /\ calls'[p].poll = calls[p].poll]_vars

C2_Witness ==
    \E p \in Procs :
        /\ observed[p].status = "completed"
        /\ calls[p].poll = Many
        /\ pc[p] = "streaming"

\* C3: the timeout (HTTP 408) is raised only with the elapsed time at or
\* above max_wait, and no later than max_wait plus one poll interval (at
\* most 5 s) plus the duration of the last status call; a status call is in
\* flight only while the elapsed time at its start was below max_wait, and
\* a sleep ends in the next status call or in the timeout, nothing else.
C3_TimeoutAtTheBudget ==
    /\ [](\A p \in Procs :
            /\ pc[p] = "polling" => elapsed[p] < max_wait[p]
            /\ pc[p] = "sleeping" => delay[p] >= 1 /\ delay[p] <= 5
            /\ result[p].status_code = 408
                 => result[p].detail[1] = "Video generation timeout")
    /\ [][\A p \in Procs :
            /\ (result[p].kind = "none" /\ result'[p].status_code = 408)
                 => /\ pc[p] = "sleeping"
                    /\ elapsed[p] + delay[p] >= max_wait[p]
                    /\ elapsed[p] + delay[p] <= max_wait[p] + 5 + poll_dur[p]
            /\ (pc[p] = "sleeping" /\ pc'[p] # "sleeping")
                 => \/ pc'[p] = "polling" /\ elapsed'[p] < max_wait[p]
                    \/ /\ pc'[p] = "raised"
                       /\ result'[p].status_code = 408
                       /\ elapsed[p] + delay[p] >= max_wait[p]]_vars

C3_Witness ==
    \E p \in Procs :
        /\ pc[p] = "raised"
        /\ result[p].status_code = 408
        /\ calls[p].poll = Many

\* C4: with OPENAI_API_KEY unset or empty every generate_video call ends
\* with the HTTP 500 configuration error, no upstream call is ever issued
\* and no file is written.
C4_NoKeyNoCall ==
    (OPENAI_API_KEY = None \/ OPENAI_API_KEY = "")
    => /\ files = << >>
       /\ \A p \in Procs :
            /\ calls[p] = NoCalls
            /\ pc[p] \in {"idle", "raised"}
            /\ pc[p] = "raised"
                 => /\ result[p].kind = "error"
                    /\ result[p].status_code = 500
                    /\ result[p].detail[1] =
                         "OPENAI_API_KEY not configured. Please set it in .env file"

C4_Witness ==
    /\ OPENAI_API_KEY = ""
    /\ \A p \in Procs : pc[p] = "raised"

\* how a stopped request ended
Outcome(p) ==
    IF result[p].kind = "success" THEN "done"
    ELSE IF result[p].status_code = 500
            /\ result[p].detail[1] = "Video generation failed: " THEN "failed"
    ELSE IF result[p].status_code = 408
            /\ result[p].detail[1] = "Video generation timeout" THEN "timed_out"
    ELSE IF result[p].detail[1] \in {"Failed to check video status: ",
                                     "Failed to download video content: ",
                                     "Error generating video: "}
         THEN "upstream_error"
    ELSE "other"

\* C5 as stated: a request that polled stops only as done, failed or
\* timed_out.
C5_OnlyThreeTerminalStates ==
    \A p \in Procs :
        (pc[p] \in Stopped /\ calls[p].poll >= 1)
        => Outcome(p) \in {"done", "failed", "timed_out"}

\* C5, amended: once the poll loop has started the request eventually
\* stops; it stops as done, failed, timed_out or with an upstream error (a
\* status poll or the content fetch answered non-200, or a call raised),
\* and a stopped request never moves again.
C5_StopsInATerminalState ==
    /\ \A p \in Procs : (pc[p] = "polling") ~> (pc[p] \in Stopped)
    /\ [](\A p \in Procs :
            (pc[p] \in Stopped /\ calls[p].poll >= 1)
            => Outcome(p) \in {"done", "failed", "timed_out", "upstream_error"})
    /\ [][\A p \in Procs :
            pc[p] \in Stopped => pc'[p] = pc[p] /\ result'[p] = result[p]]_vars

C5_Witness ==
    \E p \in Procs :
        /\ pc[p] = "raised"
        /\ calls[p].poll = Many
        /\ Outcome(p) = "upstream_error"
        /\ result[p].status_code = 404

SoleOwner(p) == \A q \in Procs \ {p} : video_id[q] # video_id[p]

\* C7 as stated: when a download completes, `<job_id>.mp4` holds the streamed
\* chunks in order (as many bytes as the chunks have), and a serve_video
\* request for that filename after the download returns those bytes.
C7_DownloadedFileIsTheStream ==
    [][\A p \in Procs :
        /\ (pc[p] = "streaming" /\ pc'[p] = "returned")
             => /\ files'[video_id[p] \o ".mp4"] = received[p]
                /\ Len(files'[video_id[p] \o ".mp4"]) = total_bytes[p]
        /\ (/\ served' # served
            /\ pc[p] = "returned"
            /\ RouteFilename(served'.path) = video_id[p] \o ".mp4")
             => /\ served'.status_code = 200
                /\ served'.body = received[p]]_vars

\* C7, amended: the same, for a request whose job id no other request was
\* assigned.
C7_SoleDownloadIsTheStream ==
    [][\A p \in Procs :
        SoleOwner(p) =>
          /\ (pc[p] = "streaming" /\ pc'[p] = "returned")
               => /\ files'[video_id[p] \o ".mp4"] = received[p]
                  /\ Len(files'[video_id[p] \o ".mp4"]) = total_bytes[p]
          /\ (/\ served' # served
              /\ pc[p] = "returned"
              /\ RouteFilename(served'.path) = video_id[p] \o ".mp4")
               => /\ served'.status_code = 200
                  /\ served'.body = received[p]]_vars

C7_Witness ==
    \E p \in Procs :
        /\ pc[p] = "returned"
        /\ SoleOwner(p)
        /\ \A q \in Procs : pc[q] \in Stopped
        /\ received[p] = <<2, 1>>
        /\ served.path = <<"/videos/", video_id[p] \o ".mp4">>
        /\ served.status_code = 200
        /\ served.body = <<2, 1>>

\* C8: generate_video answers "success" only with the job observed
\* `completed`, the content fetched and the file closed; its video_url is
\* /videos/<job_id>.mp4 for the id of the create response, the file of
\* that name exists, and a serve_video request for the URL finds it.
C8_SuccessMeansServable ==
    /\ [](\A p \in Procs :
            result[p].kind = "success"
            => /\ pc[p] = "returned"
               /\ result[p].status = "success"
               /\ observed[p].status = "completed"
               /\ calls[p].content = 1
               /\ fh[p] = Closed
               /\ create_response[p].json.id = video_id[p]
               /\ result[p].video_url = <<"/videos/", video_id[p] \o ".mp4">>
               /\ (video_id[p] \o ".mp4") \in DOMAIN files)
    /\ [][\A p \in Procs :
            (/\ served' # served
             /\ result[p].kind = "success"
             /\ served'.path = result[p].video_url)
            => served'.status_code = 200]_vars

C8_Witness ==
    \E p \in Procs :
        /\ result[p].kind = "success"
        /\ served.path = result[p].video_url
        /\ served.status_code = 200
        /\ served.body = <<1, 2, 2>>

\* a JSON object with an error object that has a message
HasErrorMessage(j) ==
    j.kind = "dict" /\ j.error.kind = "dict" /\ j.error.message # Missing

\* C9: a create response with a status other than 200 and 201 ends the
\* request with that status code and the detail "Failed to create video: "
\* followed by error.message of the body when the body is JSON with one,
\* else by the raw body; no status poll and no content fetch is issued.
C9_CreateErrorPropagates ==
    \A p \in Procs :
        LET r == create_response[p]
        IN  (r # NoResponse /\ r.exc = "" /\ r.status_code \notin {200, 201})
            => /\ pc[p] = "raised"
               /\ result[p].kind = "error"
               /\ result[p].status_code = r.status_code
               /\ result[p].detail[1] = "Failed to create video: "
               /\ result[p].detail[2] =
                    IF HasErrorMessage(r.json)
                    THEN (IF r.json.error.message = None
                          THEN "None" ELSE r.json.error.message)
                    ELSE r.text
               /\ calls[p].poll = 0
               /\ calls[p].content = 0

C9_Witness ==
    \E p \in Procs :
        /\ create_response[p].status_code = 503
        /\ result[p].status_code = 503
        /\ result[p].detail = <<"Failed to create video: ", "moderation">>

\* C10: a create response with status 200 or 201 and no job identifier (no
\* id, a null or empty id, or no JSON object at all) ends the request with
\* HTTP 500; no status poll, no content fetch and no file write follows.
C10_NoIdIsInternalError ==
    \A p \in Procs :
        LET r == create_response[p]
        IN  (/\ r.exc = ""
             /\ r.status_code \in {200, 201}
             /\ (r.json.kind # "dict" \/ r.json.id \in {Missing, None, ""}))
            => /\ pc[p] = "raised"
               /\ result[p].kind = "error"
               /\ result[p].status_code = 500
               /\ r.json.kind = "dict" => result[p].detail[1] = "No video ID returned"
               /\ calls[p].poll = 0
               /\ calls[p].content = 0
               /\ fh[p] = Closed
               /\ received[p] = << >>
               /\ files = << >>

C10_Witness ==
    \E p \in Procs :
        /\ create_response[p].status_code = 201
        /\ create_response[p].json.id = ""
        /\ pc[p] = "raised"
        /\ result[p].detail[1] = "No video ID returned"

\* C11: a content response with a status other than 200 ends the request
\* with that status code and the body text; the content fetch is not
\* repeated and no status poll follows.
C11_ContentErrorPropagates ==
    /\ [](\A p \in Procs :
            LET r == content_response[p]
            IN  (r # NoResponse /\ r.exc = "" /\ r.status_code # 200)
                => /\ pc[p] = "raised"
                   /\ result[p].kind = "error"
                   /\ result[p].status_code = r.status_code
                   /\ result[p].detail[1] = "Failed to download video content: "
                   /\ calls[p].content = 1)
    /\ [][\A p \in Procs :
            (content_response[p] # NoResponse /\ content_response[p].status_code # 200)
            => calls'[p] = calls[p] /\ pc'[p] = pc[p]]_vars

\* C12 as stated: every request that has ended made exactly one create call.
C12_ExactlyOneCreateCall ==
    \A p \in Procs : pc[p] \in Stopped => calls[p].create = 1

\* C12: nothing is retried. A request makes at most one create call --
\* exactly one once it passed the credential check, none when the key is not
\* configured -- and at most one content fetch; a status response other than
\* 200 ends the request with that status code; a request that has ended
\* makes no further upstream call.
C12_NothingIsRetried ==
    /\ [](\A p \in Procs :
            /\ calls[p].create <= 1
            /\ calls[p].content <= 1
            /\ (pc[p] # "idle" /\ OPENAI_API_KEY \notin {None, ""})
                   => calls[p].create = 1
            /\ OPENAI_API_KEY \in {None, ""} => calls[p] = NoCalls
            /\ poll_status[p] \notin {0, 200}
                   => /\ pc[p] = "raised"
                      /\ result[p].kind = "error"
                      /\ result[p].status_code = poll_status[p]
                      /\ result[p].detail = <<"Failed to check video status: ", "status error">>
                      /\ calls[p].content = 0)
    /\ [][\A p \in Procs : pc[p] \in Stopped => calls'[p] = calls[p]]_vars

C12_Witness ==
    \E p \in Procs :
        /\ poll_status[p] = 404
        /\ pc[p] = "raised"
        /\ calls[p].create = 1
        /\ calls[p].poll = Many

SupportedSizes == {"720x1280", "1280x720", "1024x1792", "1792x1024"}
SupportedDurations == {4, 8, 12}

\* C13: for a request with a supported size and a supported duration the
\* body of the create call carries the request's model, prompt and size
\* unchanged and the duration as the decimal string of the integer.
C13_PayloadCarriesTheRequest ==
    \A p \in Procs :
        (/\ pc[p] = "creating"
         /\ request[p].size \in SupportedSizes
         /\ request[p].duration \in SupportedDurations)
        => /\ payload[p].model = request[p].model
           /\ payload[p].prompt = request[p].prompt
           /\ payload[p].size = request[p].size
           /\ payload[p].seconds = CASE request[p].duration = 4 -> "4"
                                     [] request[p].duration = 8 -> "8"
                                     [] request[p].duration = 12 -> "12"

C13_Witness ==
    \E p \in Procs :
        /\ pc[p] = "creating"
        /\ request[p].size = "1792x1024"
        /\ request[p].duration = 12
        /\ payload[p].seconds = "12"
        /\ calls[p].create = 1

IsPrefix(a, b) == Len(a) <= Len(b) /\ \A i \in 1..Len(a) : a[i] = b[i]

\* C14 as stated: in every state every file of the videos directory holds
\* the complete content of a job that was observed `completed`.
C14_EveryFileIsComplete ==
    \A name \in DOMAIN files :
        \E p \in Procs :
            /\ name = video_id[p] \o ".mp4"
            /\ observed[p].status = "completed"
            /\ pc[p] = "returned"
            /\ files[name] = received[p]

\* C14, amended: in every state every file of the videos directory is named
\* after a job that was observed `completed` and whose content response had
\* status 200. When no other request has that job id, the file holds a prefix
\* of the chunks received so far (while the download runs, and after it ended
\* in an error), and all of them, in order, once the request has returned.
C14_EveryFileIsOfACompletedJob ==
    /\ \A name \in DOMAIN files :
         \E p \in Procs :
            /\ name = video_id[p] \o ".mp4"
            /\ observed[p].status = "completed"
            /\ content_response[p].exc = ""
            /\ content_response[p].status_code = 200
            /\ pc[p] \in {"streaming", "returned", "raised"}
    /\ \A p \in Procs :
         (SoleOwner(p) /\ pc[p] \in {"streaming", "returned", "raised"}
            /\ content_response[p].exc = "" /\ content_response[p].status_code = 200)
         => /\ (video_id[p] \o ".mp4") \in DOMAIN files
            /\ IsPrefix(files[video_id[p] \o ".mp4"], received[p])
            /\ pc[p] = "returned" => files[video_id[p] \o ".mp4"] = received[p]

C14_Witness ==
    \E p, q \in Procs :
        /\ SoleOwner(p)
        /\ pc[p] = "raised"
        /\ (video_id[p] \o ".mp4") \in DOMAIN files
        /\ files[video_id[p] \o ".mp4"] = <<1>>
        /\ pc[q] = "streaming"
        /\ received[q] = <<2, 1>>
        /\ (video_id[q] \o ".mp4") \in DOMAIN files
        /\ files[video_id[q] \o ".mp4"] = <<2>>

\* the download of request p has ended: its file was opened and is closed
Written(p) ==
    /\ pc[p] \in Stopped
    /\ content_response[p].exc = ""
    /\ content_response[p].status_code = 200

\* C15: while no other request has the job id of request p, the file
\* `<job_id>.mp4` that p has finished writing stays in the videos directory
\* with the same content under every step of any request and of serve_video.
C15_WrittenFileIsImmutable ==
    [][\A p \in Procs :
        (/\ Written(p)
         /\ \A q \in Procs \ {p} :
                video_id[q] # video_id[p] /\ video_id'[q] # video_id[p])
        => /\ (video_id[p] \o ".mp4") \in DOMAIN files
           /\ (video_id[p] \o ".mp4") \in DOMAIN files'
           /\ files'[video_id[p] \o ".mp4"] = files[video_id[p] \o ".mp4"]]_vars

C15_Witness ==
    \E p, q \in Procs :
        /\ video_id[p] # video_id[q]
        /\ pc[p] = "returned" /\ pc[q] = "returned"
        /\ received[p] = <<1, 2>> /\ received[q] = <<2, 2>>
        /\ (video_id[p] \o ".mp4") \in DOMAIN files
        /\ (video_id[q] \o ".mp4") \in DOMAIN files
        /\ files[video_id[p] \o ".mp4"] = <<1, 2>>
        /\ files[video_id[q] \o ".mp4"] = <<2, 2>>
        /\ served.status_code = 200

\* everything request p holds: its position, its locals, its responses
Locals(p) ==
    <<pc[p], request[p], payload[p], create_response[p], video_id[p],
      max_wait[p], elapsed[p], delay[p], poll_dur[p], poll_status[p],
      observed[p], content_response[p], fh[p], total_bytes[p], received[p],
      n_chunks[p], calls[p], raised[p], result[p]>>

\* C16: with distinct job ids concurrent requests do not touch each other.
\* A step changes the locals of at most one request; a step that leaves the
\* locals of request p alone (a step of another request, or of serve_video)
\* neither creates, removes nor changes the file `<job id of p>.mp4`; and in
\* every interleaving the file of p is made of the chunks p received (all of
\* them once p returned, all but the buffered ones while p streams) and p
\* answers with the URL of its own file -- what p does running alone.
C16_RequestsDoNotInterfere ==
    /\ [][\A p \in Procs :
            /\ \A q \in Procs \ {p} :
                   Locals(p)' = Locals(p) \/ Locals(q)' = Locals(q)
            /\ (/\ Locals(p)' = Locals(p)
                /\ video_id[p] # None
                /\ \A q \in Procs \ {p} :
                       video_id[q] # video_id[p] /\ video_id'[q] # video_id[p])
               => /\ ((video_id[p] \o ".mp4") \in DOMAIN files)
                        <=> ((video_id[p] \o ".mp4") \in DOMAIN files')
                  /\ (video_id[p] \o ".mp4") \in DOMAIN files
                        => files'[video_id[p] \o ".mp4"] = files[video_id[p] \o ".mp4"]]_vars
    /\ [](\A p \in Procs :
            SoleOwner(p) =>
              /\ pc[p] = "streaming"
                   => /\ (video_id[p] \o ".mp4") \in DOMAIN files
                      /\ files[video_id[p] \o ".mp4"] \o fh[p].buf = received[p]
              /\ pc[p] = "returned"
                   => /\ (video_id[p] \o ".mp4") \in DOMAIN files
                      /\ files[video_id[p] \o ".mp4"] = received[p]
                      /\ result[p].video_url = <<"/videos/", video_id[p] \o ".mp4">>)

C16_Witness ==
    \E p, q \in Procs :
        /\ video_id[p] = "v1" /\ video_id[q] = "v2"
        /\ pc[p] = "returned"
        /\ (video_id[p] \o ".mp4") \in DOMAIN files
        /\ files[video_id[p] \o ".mp4"] = <<2, 1>>
        /\ pc[q] = "streaming"
        /\ fh[q].buf = <<2>>
        /\ received[q] = <<1, 2>>
        /\ (video_id[q] \o ".mp4") \in DOMAIN files
        /\ files[video_id[q] \o ".mp4"] = <<1>>

C18_EveryOutcomeIsSuccessOrHttpError ==
    \A p \in Procs :
        /\ pc[p] \notin Stopped => result[p].kind = "none" /\ raised[p] = NoException
        /\ pc[p] = "returned"
             => /\ result[p].kind = "success"
                /\ result[p].status_code = 200
                /\ raised[p] = NoException
        /\ pc[p] = "raised"
             => /\ result[p].kind = "error"
                /\ raised[p].type \in {"HTTPException", "Exception"}
                /\ raised[p].type = "HTTPException"
                     => /\ result[p].status_code = raised[p].status_code
                        /\ result[p].detail = raised[p].detail
                /\ raised[p].type = "Exception"
                     => /\ result[p].status_code = 500
                        /\ result[p].detail =
                             <<"Error generating video: ", raised[p].detail[1]>>

C18_Witness ==
    \E p \in Procs :
        /\ pc[p] = "raised"
        /\ raised[p].type = "Exception"
        /\ raised[p].detail[1] = "JSONDecodeError"
        /\ result[p].status_code = 500
        /\ result[p].detail = <<"Error generating video: ", "JSONDecodeError">>
        /\ calls[p].poll = 1

\* the content fetch of request p returned status 200
ContentFetched(p) ==
    content_response[p].exc = "" /\ content_response[p].status_code = 200

\* C19: a request whose content fetch has not returned status 200 leaves the
\* videos directory as it is: none of its steps, up to and including the one
\* that ends it, creates, truncates, changes or removes a file, and it holds
\* no open file.
C19_NoDownloadNoFileChange ==
    /\ [][\A p \in Procs :
            (Locals(p)' # Locals(p) /\ ~ContentFetched(p)')
            => files' = files]_vars
    /\ [](\A p \in Procs :
            ~ContentFetched(p)
            => fh[p] = Closed /\ received[p] = << >> /\ pc[p] \notin {"streaming", "returned"})

C19_Witness ==
    \E p, q \in Procs :
        /\ pc[p] = "raised"
        /\ content_response[p].status_code = 404
        /\ result[p].status_code = 404
        /\ video_id[p] = "v1" /\ video_id[q] = "v2"
        /\ pc[q] = "returned"
        /\ DOMAIN files = {"v2.mp4"}
        /\ files["v2.mp4"] = <<1, 2>>

====
